---- MODULE Spec2Model ----
(***************************************************************************)
(* Model of the two provider adapters of LightCPVerifier:                  *)
(*   Variant A: src/chatgpt_api.py (ExampleLLM, fail-fast)                 *)
(*   Variant B: src/gemini_api.py  (GeminiLLM, fail-soft)                  *)
(* and of their two callers: the script's __main__ block ("main") and a    *)
(* library client that constructs an adapter and calls it repeatedly       *)
(* ("client").                                                             *)
(*                                                                         *)
(* Text is a sequence of strings, one character each wherever the code    *)
(* looks inside the text.  The provider SDKs, the process environment and  *)
(* the file system are the environment: their answers are chosen           *)
(* nondeterministically from bounded sets.                                 *)
(***************************************************************************)
EXTENDS Naturals, Sequences, FiniteSets

VARIABLES
    variant,      \* "A" (chatgpt_api.py) or "B" (gemini_api.py)
    caller,       \* "main" (__main__ block) or "client" (library use)
    api_key,      \* value of os.getenv(<provider key>)
    stmtFile,     \* the problem statement file: [state, content]
    outFile,      \* the solution output file: [written, content]
    pc,           \* position of the caller
    adapter,      \* the adapter object: [prompt, handle]
    adapter0,     \* the adapter object as it was right after construction
    ctor,         \* the constructor: its end, the error inside it, what the SDK did
    statement,    \* main's local variable statement
    lastGen,      \* the generate_solution invocation just made, and its result
    lastLlm,      \* last call_llm invocation and its result
    lastRequest,  \* last outbound provider request
    nGenCalls,    \* number of generate_solution invocations
    nDirectCalls, \* number of call_llm invocations made directly by the client
    nLlmCalls,    \* number of call_llm invocations
    nRequests,    \* number of outbound provider requests
    unhandled,    \* exception that reached the process boundary (or NoExc)
    stdout        \* what was printed, as a sequence of tags

vars == <<variant, caller, api_key, stmtFile, outFile, pc, adapter, adapter0,
          ctor, statement, lastGen, lastLlm, lastRequest, nGenCalls,
          nDirectCalls, nLlmCalls, nRequests, unhandled, stdout>>

----------------------------------------------------------------------------
(* Bounds of the model *)

MaxCalls == 2
MaxPad == 1

SeqsUpTo(A, n) == UNION {[1..k -> A] : k \in 0..n}

Last(s) == s[Len(s)]

----------------------------------------------------------------------------
(* Text *)

\* self.prompt of LLMInterface.__init__: the triple-quoted literal, i.e. a
\* newline and indentation, the instruction sentences, a newline and
\* indentation.  Each sentence is kept as one element.
Instruction ==
    << "\n", " ", " ", " ", " ", " ", " ", " ", " ",
       "You are a competitive programmer.",
       " ",
       "You will be given a problem statement, please implement solution in C++.",
       " ",
       "The execution time and memory limit are also stated in the statement so be aware of the complexity of the program.",
       " ",
       "Please wrap the code in (fence)cpp and (fence) so that it is properly formatted.",
       "\n", " ", " ", " ", " ", " ", " ", " ", " " >>

\* The literal "Error:" that __main__ of gemini_api.py searches for.
ErrorMarker == <<"E", "r", "r", "o", "r", ":">>

\* The literal "Error: Model not initialized."
NotInitializedText ==
    <<"E", "r", "r", "o", "r", ":", " ",
      "M", "o", "d", "e", "l", " ", "n", "o", "t", " ",
      "i", "n", "i", "t", "i", "a", "l", "i", "z", "e", "d", ".">>

\* The placeholder statement written when the statement file is missing.
PlaceholderText ==
    <<"This is a placeholder problem.", " ",
      "Please replace it with a real one.">>

\* Python's (sub in text) on strings.
Contains(text, sub) ==
    \E i \in 0..Len(text) :
        /\ i + Len(sub) <= Len(text)
        /\ SubSeq(text, i + 1, i + Len(sub)) = sub

\* Python's truth value of a string.
Truthy(text) == Len(text) > 0

----------------------------------------------------------------------------
(* Inputs *)

Variants == {"A", "B"}
Callers == {"main", "client"}

\* os.getenv returns None when the variable is not set.
NoneKey == "<None>"
ApiKeys == {NoneKey, "", "key"}

\* Problem statements (the file may also be empty).
Statements == { <<>>, <<"a">>, <<"a", "b">> }

\* The statement file: missing, present but unreadable, or readable.
StmtFiles ==
    {[state |-> st, content |-> <<>>] : st \in {"missing", "unreadable"}}
    \cup {[state |-> "ok", content |-> S] : S \in Statements}

\* Texts the provider may answer with: text around a core that is the
\* marker, a near miss of it, or nothing.
PadAlphabet == {"x", ":"}
Pads == SeqsUpTo(PadAlphabet, MaxPad)
Cores == { <<>>,
           ErrorMarker,
           <<"E", "r", "r", "o", "r">>,
           <<"e", "r", "r", "o", "r", ":">>,
           <<"E", "r", "r", "o", "r", " ", ":">> }
PadPairs == {pp \in Pads \X Pads : Len(pp[1]) + Len(pp[2]) <= MaxPad}
Texts == {pp[1] \o c \o pp[2] : pp \in PadPairs, c \in Cores}

\* Exceptions: a class and the message str(e).  Every class below is a
\* subclass of Exception.
ExceptionSubclasses == {"ValueError", "OSError", "APIError"}
ExcMessages == { <<>>, <<"x">> }
NoExc == [cls |-> "none", msg |-> <<>>]
Exc(cls, msg) == [cls |-> cls, msg |-> msg]
Excs == {Exc(c, m) : c \in {"ValueError", "OSError"}, m \in ExcMessages}

\* What the provider SDK does with a request: answers with a text, fails in
\* the request, or answers with something whose text cannot be extracted.
Outcomes ==
    {[kind |-> "ok", text |-> t, exc |-> NoExc] : t \in Texts}
    \cup {[kind |-> k, text |-> <<>>, exc |-> e] :
             k \in {"request_error", "text_error"}, e \in Excs}

\* What building the SDK client does: succeeds (NoExc) or raises.
SdkBuilds == {NoExc} \cup {Exc(c, <<>>) : c \in ExceptionSubclasses}

----------------------------------------------------------------------------
(* Values *)

NoneMeta == [kind |-> "None", of |-> <<>>]
NoRequest == [api |-> "none", model |-> "", prompt |-> <<>>,
              timeout |-> 0, effort |-> ""]
NoCall == [arg |-> <<>>, kind |-> "none", text |-> <<>>,
           meta |-> NoneMeta, exc |-> NoExc]
\* No request was made, so the provider did nothing.
NoOutcome == [kind |-> "none", text |-> <<>>, exc |-> NoExc]
NoLlmCall == [arg |-> <<>>, kind |-> "none", text |-> <<>>,
              meta |-> NoneMeta, exc |-> NoExc, provider |-> NoOutcome]
NoAdapter == [prompt |-> <<>>, handle |-> "unset"]

\* request_options={"timeout": 600}
Timeout == 600
\* chat.completions.create is given no timeout
NoTimeout == 0

----------------------------------------------------------------------------
(* The adapters *)

\* Variation: the handler is written for one class only (except ValueError).
CatchesOnlyValueError(e) == e.cls = "ValueError"

\* except Exception: catches every instance of a subclass of Exception.
CatchesException(e) == e.cls \in ExceptionSubclasses

\* f"Error: {e}"
ErrorText(e) == ErrorMarker \o <<" ">> \o e.msg

\* LLMInterface.__init__ (the same in both files)
LLMInterfaceInit == [prompt |-> Instruction, handle |-> "unset"]

\* not api_key: None and the empty string are falsy
KeyMissing(key) == key = NoneKey \/ key = ""

\* Variation: the constructor does not test the key and hands it to the SDK.
GeminiInitNoKeyCheck(key, build) ==
    LET base == [prompt |-> Instruction, handle |-> "unset"]
    IN  IF build = NoExc
        THEN [kind |-> "return", exc |-> NoExc,
              self |-> [base EXCEPT !.handle = "GenerativeModel"],
              out |-> <<>>]
        ELSE [kind |-> "return", exc |-> build,
              self |-> [base EXCEPT !.handle = "None"],
              out |-> <<"init_error">>]

\* Variation: the constructor has no try block, as in ExampleLLM.
GeminiInitFailFast(key, build) ==
    LET base == [prompt |-> Instruction, handle |-> "unset"]
        raised == IF key = NoneKey \/ key = ""
                  THEN Exc("ValueError",
                           <<"GOOGLE_API_KEY not found in environment variables.">>)
                  ELSE build
    IN  IF raised = NoExc
        THEN [kind |-> "return", exc |-> NoExc,
              self |-> [base EXCEPT !.handle = "GenerativeModel"],
              out |-> <<>>]
        ELSE [kind |-> "raise", exc |-> raised, self |-> base, out |-> <<>>]

\* GeminiLLM.__init__.  build is what genai.configure / GenerativeModel do.
GeminiInit(key, build) ==
    LET base == LLMInterfaceInit
        raised == IF KeyMissing(key)
                  THEN Exc("ValueError",
                           <<"GOOGLE_API_KEY not found in environment variables.">>)
                  ELSE build
    IN  IF raised = NoExc
        THEN [kind |-> "return", exc |-> NoExc,
              self |-> [base EXCEPT !.handle = "GenerativeModel"],
              out |-> <<>>]
        ELSE IF CatchesException(raised)
        THEN [kind |-> "return", exc |-> raised,
              self |-> [base EXCEPT !.handle = "None"],
              out |-> <<"init_error">>]
        ELSE [kind |-> "raise", exc |-> raised, self |-> base, out |-> <<>>]

\* ExampleLLM.__init__.  build is what OpenAI(api_key=...) does; the client
\* raises when it is given no key at all.
ExampleInit(key, build) ==
    LET base == LLMInterfaceInit
        raised == IF key = NoneKey
                  THEN Exc("APIError", <<"The api_key client option must be set">>)
                  ELSE build
    IN  IF raised = NoExc
        THEN [kind |-> "return", exc |-> NoExc,
              self |-> [base EXCEPT !.handle = "OpenAI"],
              out |-> <<"api_key">>]
        ELSE [kind |-> "raise", exc |-> raised, self |-> base,
              out |-> <<"api_key">>]

\* Variation: the request is made without request_options.
GeminiRequestNoTimeout(user_prompt) ==
    [api |-> "generate_content", model |-> "gemini-2.5-pro",
     prompt |-> user_prompt, timeout |-> NoTimeout, effort |-> ""]

\* self.model.generate_content(user_prompt, request_options={"timeout": 600})
GeminiRequest(user_prompt) ==
    [api |-> "generate_content", model |-> "gemini-2.5-pro",
     prompt |-> user_prompt, timeout |-> Timeout, effort |-> ""]

\* GeminiLLM.call_llm
GeminiCallLlm(self, user_prompt, o) ==
    IF self.handle = "None"
    THEN [kind |-> "return", text |-> NotInitializedText, meta |-> NoneMeta,
          exc |-> NoExc, requests |-> <<>>, out |-> <<>>, self |-> self]
    ELSE
      LET request == GeminiRequest(user_prompt)
      IN  IF o.kind = "ok"
          THEN [kind |-> "return", text |-> o.text,
                meta |-> [kind |-> "response", of |-> o.text],
                exc |-> NoExc, requests |-> <<request>>, out |-> <<>>,
                self |-> self]
          ELSE IF CatchesException(o.exc)
          THEN [kind |-> "return", text |-> ErrorText(o.exc),
                meta |-> NoneMeta, exc |-> NoExc,
                requests |-> <<request>>, out |-> <<"call_error">>,
                self |-> self]
          ELSE [kind |-> "raise", text |-> <<>>, meta |-> NoneMeta,
                exc |-> o.exc, requests |-> <<request>>, out |-> <<>>,
                self |-> self]

\* Variation: ExampleLLM.call_llm with the try block of GeminiLLM.call_llm.
ExampleCallLlmFailSoft(self, user_prompt, o) ==
    LET request == [api |-> "chat.completions.create", model |-> "gpt-5",
                    prompt |-> user_prompt, timeout |-> NoTimeout,
                    effort |-> "high"]
    IN  IF o.kind = "ok"
        THEN [kind |-> "return", text |-> o.text,
              meta |-> [kind |-> "str(completion)", of |-> o.text],
              exc |-> NoExc, requests |-> <<request>>, out |-> <<>>,
              self |-> self]
        ELSE [kind |-> "return", text |-> ErrorText(o.exc),
              meta |-> NoneMeta, exc |-> NoExc, requests |-> <<request>>,
              out |-> <<"call_error">>, self |-> self]

\* ExampleLLM.call_llm
ExampleCallLlm(self, user_prompt, o) ==
    LET request == [api |-> "chat.completions.create", model |-> "gpt-5",
                    prompt |-> user_prompt, timeout |-> NoTimeout,
                    effort |-> "high"]
    IN  IF o.kind = "ok"
        THEN [kind |-> "return", text |-> o.text,
              meta |-> [kind |-> "str(completion)", of |-> o.text],
              exc |-> NoExc, requests |-> <<request>>, out |-> <<>>,
              self |-> self]
        ELSE [kind |-> "raise", text |-> <<>>, meta |-> NoneMeta,
              exc |-> o.exc, requests |-> <<request>>, out |-> <<>>,
              self |-> self]

\* self.call_llm(user_prompt): dispatch on the class of self
CallLlm(v, self, user_prompt, o) ==
    IF v = "A" THEN ExampleCallLlm(self, user_prompt, o)
               ELSE GeminiCallLlm(self, user_prompt, o)

\* The record of one call_llm invocation: its argument, what it did, and
\* what the provider did with the request (if one was made).
LlmRecord(user_prompt, r, o) ==
    [arg |-> user_prompt, kind |-> r.kind, text |-> r.text, meta |-> r.meta,
     exc |-> r.exc,
     provider |-> IF r.requests = <<>> THEN NoOutcome ELSE o]

\* Variation: the statement is cut to its first character.
GenerateSolutionTruncated(v, self, problem_statement, o) ==
    LET cut == IF problem_statement = <<>> THEN <<>>
               ELSE <<problem_statement[1]>>
        user_prompt == self.prompt \o cut
        r == CallLlm(v, self, user_prompt, o)
    IN  [kind |-> r.kind, text |-> r.text, meta |-> r.meta, exc |-> r.exc,
         requests |-> r.requests, out |-> r.out, self |-> r.self,
         llm |-> <<LlmRecord(user_prompt, r, o)>>]

\* Variation: a call that did not return a result is made once more.
GenerateSolutionRetry(v, self, problem_statement, o) ==
    LET user_prompt == self.prompt \o problem_statement
        r1 == CallLlm(v, self, user_prompt, o)
        again == r1.kind = "raise" \/ r1.meta = NoneMeta
        r == CallLlm(v, self, user_prompt, o)
    IN  [kind |-> r.kind, text |-> r.text, meta |-> r.meta, exc |-> r.exc,
         requests |-> IF again THEN r1.requests \o r.requests ELSE r1.requests,
         out |-> r.out, self |-> r.self,
         llm |-> <<LlmRecord(user_prompt, r, o)>>]

\* Variation: self.prompt += problem_statement
GenerateSolutionAccumulating(v, self, problem_statement, o) ==
    LET user_prompt == self.prompt \o problem_statement
        r == CallLlm(v, self, user_prompt, o)
    IN  [kind |-> r.kind, text |-> r.text, meta |-> r.meta, exc |-> r.exc,
         requests |-> r.requests, out |-> r.out,
         self |-> [r.self EXCEPT !.prompt = user_prompt],
         llm |-> <<LlmRecord(user_prompt, r, o)>>]

\* LLMInterface.generate_solution (the same in both files).  llm lists the
\* call_llm invocations it makes.
GenerateSolution(v, self, problem_statement, o) ==
    LET user_prompt == self.prompt \o problem_statement
        r == CallLlm(v, self, user_prompt, o)
    IN  [kind |-> r.kind, text |-> r.text, meta |-> r.meta, exc |-> r.exc,
         requests |-> r.requests, out |-> r.out, self |-> r.self,
         llm |-> <<LlmRecord(user_prompt, r, o)>>]

----------------------------------------------------------------------------
(* The callers *)

\* The end of __main__ once generate_solution has returned: what is written
\* to the output file and what is printed.
ExampleReport(response, meta, file) ==
    [file |-> [written |-> TRUE, content |-> response], out |-> <<"meta">>]

\* Variation: if response:
GeminiReportTruthyOnly(response, meta, file) ==
    IF Truthy(response)
    THEN [file |-> [written |-> TRUE, content |-> response],
          out |-> <<"saved", "meta">>]
    ELSE [file |-> file, out |-> <<"failed", "response">>]

\* Variation: if meta is not None:
GeminiReportByMeta(response, meta, file) ==
    IF meta # NoneMeta
    THEN [file |-> [written |-> TRUE, content |-> response],
          out |-> <<"saved", "meta">>]
    ELSE [file |-> file, out |-> <<"failed", "response">>]

GeminiReport(response, meta, file) ==
    IF Truthy(response) /\ ~Contains(response, ErrorMarker)
    THEN [file |-> [written |-> TRUE, content |-> response],
          out |-> <<"saved", "meta">>]
    ELSE [file |-> file, out |-> <<"failed", "response">>]

Init ==
    /\ variant \in Variants
    /\ caller \in Callers
    /\ api_key \in ApiKeys
    /\ stmtFile \in StmtFiles
    /\ caller = "client" => stmtFile.state = "missing"
    /\ outFile = [written |-> FALSE, content |-> <<>>]
    /\ pc = "init"
    /\ adapter = NoAdapter
    /\ adapter0 = NoAdapter
    /\ ctor = [kind |-> "none", exc |-> NoExc, build |-> NoExc]
    /\ statement = <<>>
    /\ lastGen = NoCall
    /\ lastLlm = NoLlmCall
    /\ lastRequest = NoRequest
    /\ nGenCalls = 0
    /\ nDirectCalls = 0
    /\ nLlmCalls = 0
    /\ nRequests = 0
    /\ unhandled = NoExc
    /\ stdout = <<>>

\* llm = ExampleLLM()  /  llm = GeminiLLM()
Construct ==
    /\ pc = "init"
    /\ \E build \in SdkBuilds :
         LET r == IF variant = "A" THEN ExampleInit(api_key, build)
                                   ELSE GeminiInit(api_key, build)
         IN  /\ ctor' = [kind |-> r.kind, exc |-> r.exc, build |-> build]
             /\ stdout' = stdout \o r.out
             /\ IF r.kind = "return"
                THEN /\ adapter' = r.self
                     /\ adapter0' = r.self
                     /\ pc' = "constructed"
                     /\ unhandled' = unhandled
                ELSE /\ adapter' = adapter
                     /\ adapter0' = adapter0
                     /\ pc' = "crashed"
                     /\ unhandled' = r.exc
    /\ UNCHANGED <<variant, caller, api_key, stmtFile, outFile, statement,
                   lastGen, lastLlm, lastRequest, nGenCalls, nDirectCalls,
                   nLlmCalls, nRequests>>

\* gemini_api.py __main__: the os.path.exists check and the placeholder file
\* (outside the try block: a failure to create it ends the run).
CheckStatementFile ==
    /\ pc = "constructed"
    /\ caller = "main"
    /\ variant = "B"
    /\ IF stmtFile.state = "missing"
       THEN \E created \in BOOLEAN :
              IF created
              THEN /\ stmtFile' = [state |-> "ok", content |-> PlaceholderText]
                   /\ stdout' = stdout \o <<"not_found", "placeholder">>
                   /\ pc' = "checked"
                   /\ unhandled' = unhandled
              ELSE /\ stmtFile' = stmtFile
                   /\ stdout' = stdout \o <<"not_found">>
                   /\ pc' = "crashed"
                   /\ unhandled' = Exc("OSError", <<>>)
       ELSE /\ pc' = "checked"
            /\ UNCHANGED <<stmtFile, stdout, unhandled>>
    /\ UNCHANGED <<variant, caller, api_key, outFile, adapter, adapter0, ctor,
                   statement, lastGen, lastLlm, lastRequest, nGenCalls,
                   nDirectCalls, nLlmCalls, nRequests>>

\* with open(path, 'r') as file: statement = file.read()
ReadStatement ==
    /\ caller = "main"
    /\ pc = IF variant = "A" THEN "constructed" ELSE "checked"
    /\ IF stmtFile.state = "ok"
       THEN /\ statement' = stmtFile.content
            /\ pc' = "loaded"
            /\ UNCHANGED <<stdout, unhandled>>
       ELSE IF variant = "A"
       THEN /\ pc' = "crashed"
            /\ unhandled' = Exc("OSError", <<>>)
            /\ UNCHANGED <<statement, stdout>>
       ELSE /\ pc' = "done"
            /\ stdout' = stdout \o <<"unexpected_error">>
            /\ UNCHANGED <<statement, unhandled>>
    /\ UNCHANGED <<variant, caller, api_key, stmtFile, outFile, adapter,
                   adapter0, ctor, lastGen, lastLlm, lastRequest, nGenCalls,
                   nDirectCalls, nLlmCalls, nRequests>>

\* The effect of one generate_solution invocation g on the recorded state.
RecordGenerate(S, g) ==
    /\ adapter' = g.self
    /\ lastGen' = [arg |-> S, kind |-> g.kind, text |-> g.text,
                   meta |-> g.meta, exc |-> g.exc]
    /\ nGenCalls' = nGenCalls + 1
    /\ nLlmCalls' = nLlmCalls + Len(g.llm)
    /\ lastLlm' = IF g.llm = <<>> THEN lastLlm ELSE Last(g.llm)
    /\ nRequests' = nRequests + Len(g.requests)
    /\ lastRequest' = IF g.requests = <<>> THEN lastRequest
                                           ELSE Last(g.requests)

\* response, meta = llm.generate_solution(statement)
MainGenerate ==
    /\ caller = "main"
    /\ pc = "loaded"
    /\ \E o \in Outcomes :
         LET g == GenerateSolution(variant, adapter, statement, o)
             pre == IF variant = "B" THEN <<"generating">> ELSE <<>>
         IN  /\ RecordGenerate(statement, g)
             /\ IF g.kind = "return"
                THEN /\ pc' = "called"
                     /\ stdout' = stdout \o pre \o g.out
                     /\ unhandled' = unhandled
                ELSE IF variant = "A"
                THEN /\ pc' = "crashed"
                     /\ stdout' = stdout \o pre \o g.out
                     /\ unhandled' = g.exc
                ELSE /\ pc' = "done"
                     /\ stdout' = stdout \o pre \o g.out \o <<"unexpected_error">>
                     /\ unhandled' = unhandled
    /\ UNCHANGED <<variant, caller, api_key, stmtFile, outFile, adapter0,
                   ctor, statement, nDirectCalls>>

\* The rest of __main__: the output file and the prints.
MainReport ==
    /\ caller = "main"
    /\ pc = "called"
    /\ LET r == IF variant = "A"
                THEN ExampleReport(lastGen.text, lastGen.meta, outFile)
                ELSE GeminiReport(lastGen.text, lastGen.meta, outFile)
       IN  /\ outFile' = r.file
           /\ stdout' = stdout \o r.out
    /\ pc' = "done"
    /\ UNCHANGED <<variant, caller, api_key, stmtFile, adapter, adapter0,
                   ctor, statement, lastGen, lastLlm, lastRequest, nGenCalls,
                   nDirectCalls, nLlmCalls, nRequests, unhandled>>

\* A library client calls llm.generate_solution(S); an error that is raised
\* is caught by the client, which goes on.
ClientGenerate ==
    /\ caller = "client"
    /\ pc = "constructed"
    /\ nGenCalls + nDirectCalls < MaxCalls
    /\ \E S \in Statements, o \in Outcomes :
         LET g == GenerateSolution(variant, adapter, S, o)
         IN  /\ RecordGenerate(S, g)
             /\ stdout' = stdout \o g.out
    /\ UNCHANGED <<variant, caller, api_key, stmtFile, outFile, pc, adapter0,
                   ctor, statement, nDirectCalls, unhandled>>

\* A library client calls llm.call_llm(prompt) itself.
ClientCallLlm ==
    /\ caller = "client"
    /\ pc = "constructed"
    /\ nGenCalls + nDirectCalls < MaxCalls
    /\ \E p \in Statements, o \in Outcomes :
         LET r == CallLlm(variant, adapter, p, o)
         IN  /\ adapter' = r.self
             /\ lastLlm' = LlmRecord(p, r, o)
             /\ nLlmCalls' = nLlmCalls + 1
             /\ nRequests' = nRequests + Len(r.requests)
             /\ lastRequest' = IF r.requests = <<>> THEN lastRequest
                                                    ELSE Last(r.requests)
             /\ stdout' = stdout \o r.out
    /\ lastGen' = NoCall
    /\ nDirectCalls' = nDirectCalls + 1
    /\ UNCHANGED <<variant, caller, api_key, stmtFile, outFile, pc, adapter0,
                   ctor, statement, nGenCalls, unhandled>>

Next ==
    \/ Construct
    \/ CheckStatementFile
    \/ ReadStatement
    \/ MainGenerate
    \/ MainReport
    \/ ClientGenerate
    \/ ClientCallLlm

Spec == Init /\ [][Next]_vars

----------------------------------------------------------------------------
(* Properties *)

InSeq(x, seq) == \E i \in 1..Len(seq) : seq[i] = x

\* The provider failed in the last call_llm: in the request or in the
\* extraction of the text.
ProviderFailed == lastLlm.provider.kind \in {"request_error", "text_error"}

Terminated == pc \in {"done", "crashed"}

\* C1: in both adapters generate_solution(S) calls call_llm exactly once,
\* with the instruction string followed by the whole of S, and returns the
\* (text, metadata) pair of call_llm as it is.
C1_GenerateSolutionPassesThrough ==
    /\ nLlmCalls = nGenCalls + nDirectCalls
    /\ lastGen.kind # "none" =>
         /\ lastLlm.arg = Instruction \o lastGen.arg
         /\ Len(lastLlm.arg) = Len(Instruction) + Len(lastGen.arg)
         /\ lastGen.kind = lastLlm.kind
         /\ lastGen.kind = "return" =>
              /\ lastGen.text = lastLlm.text
              /\ lastGen.meta = lastLlm.meta

C1_Witness ==
    /\ variant = "A"
    /\ nGenCalls = 2
    /\ lastGen.kind = "return"
    /\ lastGen.arg = <<"a", "b">>
    /\ Truthy(lastGen.text)
    /\ lastGen.meta.kind = "str(completion)"

\* C2: a GeminiLLM constructed without a credential makes no provider
\* request in any later call_llm or generate_solution call, and each such
\* call returns a text containing the error marker, with None as metadata.
C2_NoCredentialNoRequest ==
    (variant = "B" /\ api_key = NoneKey) =>
        /\ nRequests = 0
        /\ lastRequest = NoRequest
        /\ lastLlm.kind # "none" =>
             /\ lastLlm.kind = "return"
             /\ Contains(lastLlm.text, ErrorMarker)
             /\ lastLlm.meta = NoneMeta
             /\ lastLlm.provider = NoOutcome
        /\ lastGen.kind # "none" =>
             /\ lastGen.kind = "return"
             /\ Contains(lastGen.text, ErrorMarker)
             /\ lastGen.meta = NoneMeta

C2_Witness ==
    /\ variant = "B"
    /\ api_key = NoneKey
    /\ nDirectCalls = 1
    /\ nGenCalls = 1
    /\ lastGen.kind = "return"
    /\ lastGen.arg = <<"a", "b">>

\* C3: when the provider request or the extraction of its text fails,
\* GeminiLLM.call_llm returns (error string, None) and raises nothing; so
\* does generate_solution.
C3_FailSoftReturnsErrorString ==
    (variant = "B" /\ ProviderFailed) =>
        /\ lastLlm.kind = "return"
        /\ lastLlm.text = ErrorMarker \o <<" ">> \o lastLlm.provider.exc.msg
        /\ lastLlm.meta = NoneMeta
        /\ lastGen.kind # "none" =>
             /\ lastGen.kind = "return"
             /\ lastGen.text = lastLlm.text
             /\ lastGen.meta = NoneMeta
        /\ unhandled = NoExc
        /\ pc # "crashed"

C3_Witness ==
    /\ variant = "B"
    /\ lastLlm.provider.kind = "text_error"
    /\ lastLlm.provider.exc.cls = "OSError"
    /\ lastGen.kind = "return"

\* C4: when the provider request fails, ExampleLLM.call_llm and
\* generate_solution raise that error to the caller and return no
\* (text, metadata) value; in the script the error ends the run.
C4_FailFastPropagates ==
    (variant = "A" /\ ProviderFailed) =>
        /\ lastLlm.kind = "raise"
        /\ lastLlm.exc = lastLlm.provider.exc
        /\ lastGen.kind # "none" =>
             /\ lastGen.kind = "raise"
             /\ lastGen.exc = lastLlm.provider.exc
        /\ caller = "main" =>
             /\ pc = "crashed"
             /\ unhandled = lastLlm.provider.exc

C4_Witness ==
    /\ variant = "A"
    /\ caller = "main"
    /\ pc = "crashed"
    /\ lastLlm.provider.kind = "request_error"
    /\ lastGen.kind = "raise"

\* C5 as stated: every finished run of either script has issued exactly one
\* provider request.
C5_ExactlyOneRequestPerRun ==
    (caller = "main" /\ Terminated) => nRequests = 1

\* C5 as amended: a run of either script issues at most one provider
\* request; a finished run has issued one exactly when the adapter was
\* constructed without an error and the statement file could be read.
C5_AtMostOneRequestPerRun ==
    caller = "main" =>
        /\ nRequests <= 1
        /\ Terminated =>
             (nRequests = 1 <=>
                 /\ ctor.kind = "return"
                 /\ ctor.exc = NoExc
                 /\ stmtFile.state = "ok")

C5_Witness ==
    /\ caller = "main"
    /\ pc = "done"
    /\ nRequests = 1
    /\ lastLlm.provider.kind = "request_error"

\* C6: a run of either script in which the provider call fails does not
\* write the output file: in Variant A the error is raised before the file is
\* opened, in Variant B the error string with None leads to the diagnostic.
C6_FailedCallWritesNoOutput ==
    (caller = "main" /\ ProviderFailed) =>
        /\ ~outFile.written
        /\ variant = "A" => pc = "crashed"
        /\ variant = "B" =>
             /\ Contains(lastGen.text, ErrorMarker)
             /\ lastGen.meta = NoneMeta
             /\ pc \in {"called", "done"}
             /\ pc = "done" => InSeq("failed", stdout) /\ ~InSeq("saved", stdout)

C6_Witness ==
    /\ caller = "main"
    /\ variant = "B"
    /\ pc = "done"
    /\ lastLlm.provider.kind = "request_error"
    /\ InSeq("failed", stdout)

\* C7: the construction of GeminiLLM always completes; the adapter is
\* degraded (model is None) exactly when the credential is absent or empty or
\* the building of the client raised, the error is then logged, and the
\* instruction string is set in both states.
C7_GeminiConstructionNeverFails ==
    (variant = "B" /\ pc # "init") =>
        /\ ctor.kind = "return"
        /\ adapter0.prompt = Instruction
        /\ adapter0.handle \in {"None", "GenerativeModel"}
        /\ adapter0.handle = "None" <=>
             (api_key = NoneKey \/ api_key = "" \/ ctor.build # NoExc)
        /\ adapter0.handle = "None" => InSeq("init_error", stdout)
        /\ adapter0.handle # "None" => ~InSeq("init_error", stdout)

C7_Witness ==
    /\ variant = "B"
    /\ api_key = "key"
    /\ ctor.build.cls = "OSError"
    /\ pc = "constructed"
    /\ adapter.handle = "None"

\* C8: every request made by GeminiLLM.call_llm carries a timeout of 600
\* seconds.
C8_GeminiRequestTimeout ==
    (variant = "B" /\ nRequests > 0) =>
        /\ lastRequest.api = "generate_content"
        /\ lastRequest.timeout = 600

C8_Witness ==
    /\ variant = "B"
    /\ nRequests = 2
    /\ lastRequest.timeout = 600
    /\ lastRequest.prompt = Instruction \o <<"a", "b">>

\* C9: calls leave the adapter as it was right after construction, whether
\* they succeed or fail, so the prompt of every call is the instruction
\* followed by the statement of that call only, and a degraded adapter stays
\* degraded and a ready one ready.
C9_CallsLeaveAdapterUnchanged ==
    /\ adapter = adapter0
    /\ pc \notin {"init", "crashed"} => adapter.prompt = Instruction
    /\ lastGen.kind # "none" => lastLlm.arg = Instruction \o lastGen.arg
    /\ nRequests > 0 => lastRequest.prompt = lastLlm.arg

C9_Witness ==
    /\ variant = "B"
    /\ adapter.handle = "GenerativeModel"
    /\ nLlmCalls = 2
    /\ InSeq("call_error", stdout)
    /\ lastGen.kind = "return"
    /\ lastGen.meta # NoneMeta
    /\ lastGen.arg = <<>>

====
